---------------------------- MODULE Spec2Model ----------------------------
(***************************************************************************)
(* Model of the graph integrator src/unir.py: the value extractors         *)
(* (get_value, extract_qid, extract_pid), load_json_any and the KGBuilder  *)
(* (ensure_node, add_edge, process_row, build).                            *)
(*                                                                         *)
(* Python values are records [t, s, n, d]:                                 *)
(*   t  the type: "None", "str", "int", "list" or "dict";                  *)
(*   s  the characters of a str (one-character strings), and for a list    *)
(*      the characters of its str() form;                                  *)
(*   n  the value of an int, the length of a list;                         *)
(*   d  for a dict: <<v>> when it has the key "value" with value v, and    *)
(*      <<>> when it has no such key.                                      *)
(* A raised exception is the field exc of an operator's result.            *)
(***************************************************************************)
EXTENDS Integers, Sequences, FiniteSets, TLC

\* ------------------------------------------------------------ Python values

None == [t |-> "None", s |-> <<>>, n |-> 0, d |-> <<>>]

PyStr(chars) == [t |-> "str", s |-> chars, n |-> 0, d |-> <<>>]

PyInt(k) == [t |-> "int", s |-> <<>>, n |-> k, d |-> <<>>]

\* a list of len elements whose str() form is repr
PyList(repr, len) == [t |-> "list", s |-> repr, n |-> len, d |-> <<>>]

\* {"value": v}
Wrapped(v) == [t |-> "dict", s |-> <<>>, n |-> 0, d |-> <<v>>]

\* a dict without the key "value"
NoValue == [t |-> "dict", s |-> <<>>, n |-> 0, d |-> <<>>]

\* bool(v): what or, 'if label:' and 'if not subj:' test
Truthy(v) ==
    CASE v.t = "None" -> FALSE
      [] v.t = "str"  -> v.s # <<>>
      [] v.t = "int"  -> v.n # 0
      [] v.t = "list" -> v.n > 0
      [] OTHER        -> TRUE

\* hash(v) succeeds: lists are unhashable
Hashable(v) == v.t # "list" /\ v.t # "dict"

\* printable ASCII in code-point order, from code 32 (the double quote,
\* the backslash and the backtick are written by name)
Ascii ==
    << " ", "!", "dquote", "#", "$", "%", "&", "'", "(", ")", "*", "+", ",", "-",
       ".", "/", "0", "1", "2", "3", "4", "5", "6", "7", "8", "9", ":", ";",
       "<", "=", ">", "?", "@", "A", "B", "C", "D", "E", "F", "G", "H", "I",
       "J", "K", "L", "M", "N", "O", "P", "Q", "R", "S", "T", "U", "V", "W",
       "X", "Y", "Z", "[", "backslash", "]", "^", "_", "backtick", "a", "b", "c", "d", "e",
       "f", "g", "h", "i", "j", "k", "l", "m", "n", "o", "p", "q", "r", "s",
       "t", "u", "v", "w", "x", "y", "z", "{", "|", "}", "~" >>

\* ord(c)
Ord(c) ==
    IF c = "\n" THEN 10
    ELSE 31 + (CHOOSE i \in 1..Len(Ascii) : Ascii[i] = c)

DigitChars == <<"0", "1", "2", "3", "4", "5", "6", "7", "8", "9">>

IsDigit(c) == \E i \in 1..10 : DigitChars[i] = c

\* str(k) of an int
RECURSIVE NatToChars(_)
NatToChars(k) ==
    IF k < 10 THEN <<DigitChars[k + 1]>>
    ELSE NatToChars(k \div 10) \o <<DigitChars[(k % 10) + 1]>>

IntToChars(k) == IF k < 0 THEN <<"-">> \o NatToChars(-k) ELSE NatToChars(k)

\* ------------------------------------------------------------ Utilidades

\* get_value(x)
get_value(x) ==
    CASE x.t = "None" -> PyStr(<<>>)
      [] x.t = "dict" -> IF x.d # <<>> THEN x.d[1] ELSE PyStr(<<>>)
      [] x.t = "str"  -> x
      [] x.t = "int"  -> PyStr(IntToChars(x.n))
      [] OTHER        -> PyStr(x.s)

\* the literal part of _QID_RE up to the digits: /entity/Q
QidLiteral == <<"/", "e", "n", "t", "i", "t", "y", "/", "Q">>

\* the literal part of _PID_RE up to the digits: /prop/direct/P
PidLiteral == <<"/", "p", "r", "o", "p", "/", "d", "i", "r", "e", "c", "t", "/", "P">>

\* \d+$ : one or more digits up to the end, or up to a final newline
DigitsToEnd(chars) ==
    LET m == IF chars # <<>> /\ chars[Len(chars)] = "\n"
             THEN Len(chars) - 1 ELSE Len(chars)
    IN  m >= 1 /\ \A i \in 1..m : IsDigit(chars[i])

\* re.compile(literal + r"(\d+)$").search(chars): the group (its last literal
\* character and the digits), or <<>> when there is no match
Search(literal, chars) ==
    LET k  == Len(literal)
        at == {i \in 1..(Len(chars) - k) :
                 /\ SubSeq(chars, i, i + k - 1) = literal
                 /\ DigitsToEnd(SubSeq(chars, i + k, Len(chars)))}
    IN  IF at = {} THEN <<>>
        ELSE LET i    == CHOOSE j \in at : \A h \in at : j <= h
                 last == IF chars[Len(chars)] = "\n"
                         THEN Len(chars) - 1 ELSE Len(chars)
             IN  SubSeq(chars, i + k - 1, last)

\* the result of an expression: exc when it raised, else its value val
Raise == [exc |-> TRUE, val |-> None]

Value(v) == [exc |-> FALSE, val |-> v]

\* extract_qid(x) and extract_pid(x): re.search raises TypeError on a value
\* that is not a str
Extract(literal, x) ==
    LET v == get_value(x)
    IN  IF v.t # "str" THEN Raise
        ELSE LET g == Search(literal, v.s)
             IN  IF g = <<>> THEN Value(None) ELSE Value(PyStr(g))

extract_qid(x) == Extract(QidLiteral, x)

extract_pid(x) == Extract(PidLiteral, x)

\* a or b or c over evaluated operands: the first operand that raises or is
\* truthy ends the chain, the last operand is the value otherwise
RECURSIVE OrChain(_)
OrChain(rs) ==
    IF rs[1].exc THEN Raise
    ELSE IF Len(rs) = 1 \/ Truthy(rs[1].val) THEN rs[1]
    ELSE OrChain(Tail(rs))

\* ------------------------------------------------------------ Builder

\* a KGBuilder's fields (__init__ gives the empty ones)
NewKG == [nodes |-> <<>>, edges |-> <<>>, edge_seen |-> {}, prop_counts |-> <<>>]

\* the outcome of a method: exc when it raised, kg the builder it leaves
Raised(kg) == [exc |-> TRUE, kg |-> kg]

Returned(kg) == [exc |-> FALSE, kg |-> kg]

\* ensure_node creating the node only under 'if label:'
ensure_node_labelled_only(kg, qid, label) ==
    IF ~Truthy(label) THEN Returned(kg)
    ELSE LET nodes1 == IF qid \in DOMAIN kg.nodes THEN kg.nodes
                       ELSE (qid :> [id |-> qid, labels |-> {}]) @@ kg.nodes
             kg1    == [kg EXCEPT !.nodes = nodes1]
         IN  IF ~Hashable(label) THEN Raised(kg1)
             ELSE Returned([kg1 EXCEPT !.nodes[qid].labels = @ \cup {label}])

\* ensure_node keeping only the first label of a node
ensure_node_first_label(kg, qid, label) ==
    LET nodes1 == IF qid \in DOMAIN kg.nodes THEN kg.nodes
                  ELSE (qid :> [id |-> qid, labels |-> {}]) @@ kg.nodes
        kg1    == [kg EXCEPT !.nodes = nodes1]
    IN  IF ~Truthy(label) \/ nodes1[qid].labels # {} THEN Returned(kg1)
        ELSE IF ~Hashable(label) THEN Raised(kg1)
        ELSE Returned([kg1 EXCEPT !.nodes[qid].labels = @ \cup {label}])

\* ensure_node without the n["labels"].add(label)
ensure_node_no_label(kg, qid, label) ==
    IF qid \in DOMAIN kg.nodes THEN Returned(kg)
    ELSE Returned([kg EXCEPT !.nodes = (qid :> [id |-> qid, labels |-> {}]) @@ @])

\* KGBuilder.ensure_node(qid, label): set.add raises TypeError on an
\* unhashable label, after the node was created
ensure_node(kg, qid, label) ==
    LET nodes1 == IF qid \in DOMAIN kg.nodes THEN kg.nodes
                  ELSE (qid :> [id |-> qid, labels |-> {}]) @@ kg.nodes
        kg1    == [kg EXCEPT !.nodes = nodes1]
    IN  IF ~Truthy(label) THEN Returned(kg1)
        ELSE IF ~Hashable(label) THEN Raised(kg1)
        ELSE Returned([kg1 EXCEPT !.nodes[qid].labels = @ \cup {label}])

\* x or ""
OrEmpty(x) == IF Truthy(x) THEN x ELSE PyStr(<<>>)

\* add_edge without the test of edge_seen
add_edge_no_seen(kg, src, dst, pid, prop_label) ==
    LET key == <<src, dst, OrEmpty(pid), OrEmpty(prop_label)>>
        cnt == <<key[3], key[4]>>
        old == IF cnt \in DOMAIN kg.prop_counts THEN kg.prop_counts[cnt] ELSE 0
    IN  IF \E i \in 1..4 : ~Hashable(key[i]) THEN Raised(kg)
        ELSE Returned([kg EXCEPT
                 !.edge_seen = @ \cup {key},
                 !.edges = Append(@, [source |-> src, target |-> dst,
                                      property_id |-> pid,
                                      property_label |-> prop_label]),
                 !.prop_counts = (cnt :> (old + 1)) @@ @])

\* add_edge with edges.insert(0, ...) for edges.append(...)
add_edge_front(kg, src, dst, pid, prop_label) ==
    LET key == <<src, dst, OrEmpty(pid), OrEmpty(prop_label)>>
        cnt == <<key[3], key[4]>>
        old == IF cnt \in DOMAIN kg.prop_counts THEN kg.prop_counts[cnt] ELSE 0
    IN  IF \E i \in 1..4 : ~Hashable(key[i]) THEN Raised(kg)
        ELSE IF key \in kg.edge_seen THEN Returned(kg)
        ELSE Returned([kg EXCEPT
                 !.edge_seen = @ \cup {key},
                 !.edges = <<[source |-> src, target |-> dst,
                              property_id |-> pid,
                              property_label |-> prop_label]>> \o @,
                 !.prop_counts = (cnt :> (old + 1)) @@ @])

\* KGBuilder.add_edge(src, dst, pid, prop_label): hashing the key raises
\* TypeError on an unhashable prop_label
add_edge(kg, src, dst, pid, prop_label) ==
    LET key == <<src, dst, OrEmpty(pid), OrEmpty(prop_label)>>
        cnt == <<key[3], key[4]>>
        old == IF cnt \in DOMAIN kg.prop_counts THEN kg.prop_counts[cnt] ELSE 0
    IN  IF \E i \in 1..4 : ~Hashable(key[i]) THEN Raised(kg)
        ELSE IF key \in kg.edge_seen THEN Returned(kg)
        ELSE Returned([kg EXCEPT
                 !.edge_seen = @ \cup {key},
                 !.edges = Append(@, [source |-> src, target |-> dst,
                                      property_id |-> pid,
                                      property_label |-> prop_label]),
                 !.prop_counts = (cnt :> (old + 1)) @@ @])

\* a row is [t, f]: t = "dict" with the cells f (a record, column |-> cell),
\* or another type, on which row.get raises AttributeError
Row(f) == [t |-> "dict", f |-> f]

NotADict == [t |-> "str", f |-> <<>>]

\* row.get(col)
Get(row, col) == IF col \in DOMAIN row.f THEN row.f[col] ELSE None

\* subj trying the column value as well
subj_any_column(row) ==
    OrChain(<<extract_qid(Get(row, "item")),
              extract_qid(Get(row, "item1")),
              extract_qid(Get(row, "subject")),
              extract_qid(Get(row, "value"))>>)

\* process_row's subj: the entity id of item, else item1, else subject
subj(row) ==
    OrChain(<<extract_qid(Get(row, "item")),
              extract_qid(Get(row, "item1")),
              extract_qid(Get(row, "subject"))>>)

\* process_row's subj_label
subj_label(row) ==
    OrChain(<<Value(get_value(Get(row, "itemLabel"))),
              Value(get_value(Get(row, "item1Label"))),
              Value(get_value(Get(row, "subjectLabel")))>>)

\* process_row's pid: the property id of prop, else p
pid(row) ==
    OrChain(<<extract_pid(Get(row, "prop")),
              extract_pid(Get(row, "p"))>>)

\* prop_label without the 'or pid'
prop_label_no_fallback(row) ==
    OrChain(<<Value(get_value(Get(row, "propLabel"))),
              Value(get_value(Get(row, "pl_")))>>)

\* process_row's prop_label: propLabel, else pl_, else the property id
prop_label(row) ==
    OrChain(<<Value(get_value(Get(row, "propLabel"))),
              Value(get_value(Get(row, "pl_"))),
              pid(row)>>)

\* process_row's obj: the entity id of value, else item2, else o
obj(row) ==
    OrChain(<<extract_qid(Get(row, "value")),
              extract_qid(Get(row, "item2")),
              extract_qid(Get(row, "o"))>>)

\* process_row's obj_label
obj_label(row) ==
    OrChain(<<Value(get_value(Get(row, "valueLabel"))),
              Value(get_value(Get(row, "item2Label"))),
              Value(get_value(Get(row, "ol_")))>>)

\* KGBuilder.process_row(row), statement by statement: an exception leaves
\* the builder as the statements before it made it
process_row(kg, row) ==
    LET sj == subj(row)
        pr == pid(row)
        ob == obj(row)
    IN  IF row.t # "dict" \/ sj.exc THEN Raised(kg)
        ELSE IF ~Truthy(sj.val) THEN Returned(kg)
        ELSE
        LET s1 == ensure_node(kg, sj.val, subj_label(row).val)
        IN  IF s1.exc \/ pr.exc \/ ob.exc THEN Raised(s1.kg)
            ELSE IF ~Truthy(ob.val) THEN Returned(s1.kg)
            ELSE LET s2 == ensure_node(s1.kg, ob.val, obj_label(row).val)
                 IN  IF s2.exc THEN Raised(s2.kg)
                     ELSE add_edge(s2.kg, sj.val, ob.val, pr.val,
                                   prop_label(row).val)

\* a < b on str: by code point, a proper prefix first
RECURSIVE StrLess(_, _)
StrLess(a, b) ==
    IF b = <<>> THEN FALSE
    ELSE IF a = <<>> THEN TRUE
    ELSE IF a[1] = b[1] THEN StrLess(Tail(a), Tail(b))
    ELSE Ord(a[1]) < Ord(b[1])

\* a < b on two values of one type
Less(a, b) == IF a.t = "int" THEN a.n < b.n ELSE StrLess(a.s, b.s)

\* sorted(S) of values that compare
RECURSIVE SortedSeq(_)
SortedSeq(S) ==
    IF S = {} THEN <<>>
    ELSE LET m == CHOOSE x \in S : \A y \in S \ {x} : Less(x, y)
         IN  <<m>> \o SortedSeq(S \ {m})

\* sorted(S, reverse=True)
sorted_reverse(S) ==
    IF \E a, b \in S : a.t # b.t THEN [exc |-> TRUE, val |-> <<>>]
    ELSE [exc |-> FALSE,
          val |-> [i \in 1..Cardinality(S) |->
                     SortedSeq(S)[Cardinality(S) + 1 - i]]]

\* sorted(S): '<' between a str and an int raises TypeError
sorted(S) ==
    IF \E a, b \in S : a.t # b.t THEN [exc |-> TRUE, val |-> <<>>]
    ELSE [exc |-> FALSE, val |-> SortedSeq(S)]

\* the "Normaliza nodos" block of build: self.nodes is assigned once every
\* node is normalised, so an exception leaves it as it was
normalize(kg) ==
    IF \E q \in DOMAIN kg.nodes : sorted(kg.nodes[q].labels).exc THEN Raised(kg)
    ELSE Returned([kg EXCEPT !.nodes =
             [q \in DOMAIN kg.nodes |->
                [id     |-> q,
                 label  |-> IF kg.nodes[q].labels # {}
                            THEN sorted(kg.nodes[q].labels).val[1]
                            ELSE PyStr(<<>>),
                 labels |-> sorted(kg.nodes[q].labels).val]]])

\* a parsed file is [kind, len]: "invalid" (json.load raises), "badresults"
\* (a dict whose "results" has no .get), "wdqs" (results.bindings is a list
\* of len rows), "list" (a list of len rows), "other" (any other document)
load_json_any(file) ==
    CASE file.kind = "invalid"    -> [exc |-> TRUE, len |-> 0]
      [] file.kind = "badresults" -> [exc |-> TRUE, len |-> 0]
      [] file.kind = "wdqs"       -> [exc |-> FALSE, len |-> file.len]
      [] file.kind = "list"       -> [exc |-> FALSE, len |-> file.len]
      [] OTHER                    -> [exc |-> FALSE, len |-> 1]

\* ------------------------------------------------------------ Inputs

\* http://wd, the part of a URI before /entity/ or /prop/direct/
UriBase == <<"h", "t", "t", "p", ":", "/", "/", "w", "d">>

EntityUri(digits) == PyStr(UriBase \o QidLiteral \o digits)

PropUri(digits) == PyStr(UriBase \o PidLiteral \o digits)

Q1 == PyStr(<<"Q", "1">>)

Q2 == PyStr(<<"Q", "2">>)

P31 == PyStr(<<"P", "3", "1">>)

Alpha == PyStr(<<"A", "l", "p", "h", "a">>)

Beta == PyStr(<<"B", "e", "t", "a">>)

alpha == PyStr(<<"a", "l", "p", "h", "a">>)

IsA == PyStr(<<"i", "s", " ", "a">>)

\* the list ['x']
ListX == PyList(<<"[", "'", "x", "'", "]">>, 1)

\* a full row of wrapped cells: Q1 "Beta" -P31 "is a"-> Q2 "Alpha"
RowFull ==
    Row([item |-> Wrapped(EntityUri(<<"1">>)), itemLabel |-> Wrapped(Beta),
         prop |-> Wrapped(PropUri(<<"3", "1">>)), propLabel |-> Wrapped(IsA),
         value |-> Wrapped(EntityUri(<<"2">>)), valueLabel |-> Wrapped(Alpha)])

\* the second column names, bare cells, no property label:
\* Q1 "Alpha" -P31-> Q2 "alpha"
RowAlias ==
    Row([item |-> NoValue, item1 |-> EntityUri(<<"1">>), itemLabel |-> None,
         item1Label |-> Alpha, p |-> PropUri(<<"3", "1">>),
         propLabel |-> Wrapped(PyStr(<<>>)), value |-> PyInt(42),
         item2 |-> EntityUri(<<"2">>), item2Label |-> alpha])

\* the third column names, no property id, no object label:
\* Q2 "alpha" -"is a"-> Q1
RowThird ==
    Row([subject |-> Wrapped(EntityUri(<<"2">>)), subjectLabel |-> Wrapped(alpha),
         pl_ |-> Wrapped(IsA), o |-> Wrapped(EntityUri(<<"1">>))])

\* no subject id (item is a property URI), an object id and labels
RowNoSubject ==
    Row([item |-> Wrapped(PropUri(<<"3", "1">>)), itemLabel |-> Wrapped(Beta),
         prop |-> Wrapped(PropUri(<<"3", "1">>)),
         value |-> Wrapped(EntityUri(<<"2">>)), valueLabel |-> Wrapped(Beta)])

\* a subject and a literal value: Q2 "Beta", no object id
RowLiteral ==
    Row([item |-> Wrapped(EntityUri(<<"2">>)), itemLabel |-> Wrapped(Beta),
         prop |-> Wrapped(PropUri(<<"3", "1">>)), propLabel |-> Wrapped(IsA),
         value |-> Wrapped(Alpha), valueLabel |-> Wrapped(Alpha)])

\* prop wraps a number: extract_pid raises once the subject is ensured
RowBadProp ==
    Row([item |-> Wrapped(EntityUri(<<"2">>)), itemLabel |-> Wrapped(Alpha),
         prop |-> Wrapped(PyInt(5)),
         value |-> Wrapped(EntityUri(<<"1">>)), valueLabel |-> Wrapped(Beta)])

\* the subject label wraps a number
RowNumLabel ==
    Row([item |-> Wrapped(EntityUri(<<"1">>)), itemLabel |-> Wrapped(PyInt(5))])

\* value wraps null: extract_qid raises once the subject is ensured, and no
\* column yields an object id
RowBadValue ==
    Row([item |-> Wrapped(EntityUri(<<"1">>)), itemLabel |-> Wrapped(Beta),
         value |-> Wrapped(None)])

\* the property label wraps a list: add_edge raises
RowListLabel ==
    Row([item |-> Wrapped(EntityUri(<<"2">>)), propLabel |-> Wrapped(ListX),
         value |-> Wrapped(EntityUri(<<"1">>))])

Rows ==
    {RowFull, RowAlias, RowThird, RowNoSubject, RowLiteral, RowBadProp,
     RowBadValue, RowNumLabel, RowListLabel, NotADict}

\* the most files build is given
MaxFiles == 2

\* the most rows a file holds
MaxRows == 3

Files ==
    [kind : {"invalid", "badresults", "other"}, len : {0}]
        \cup [kind : {"wdqs", "list"}, len : 0..MaxRows]

\* ------------------------------------------------------------ build

VARIABLES
    nodes,        \* self.nodes
    edges,        \* self.edges
    edge_seen,    \* self.edge_seen
    prop_counts,  \* self.prop_counts
    pc,           \* where build is: "files", "rows", "done", "raised"
    fileNo,       \* how many of the files the outer loop has taken
    rowsLeft,     \* how many rows of the current file are still to come
    row,          \* the row the inner loop took last
    warn,         \* what the last step printed: "", "file" or "row"
    orderA,       \* SpecOrder: the rows of the files, in the order given
    orderB,       \* SpecOrder: the same rows in another order
    resB          \* SpecOrder: the outcome of a second builder's build on orderB

vars == <<nodes, edges, edge_seen, prop_counts, pc, fileNo, rowsLeft, row, warn,
          orderA, orderB, resB>>

orderVars == <<orderA, orderB, resB>>

\* the builder as one value
KG == [nodes |-> nodes, edges |-> edges, edge_seen |-> edge_seen,
       prop_counts |-> prop_counts]

SetKG(kg) ==
    /\ nodes' = kg.nodes
    /\ edges' = kg.edges
    /\ edge_seen' = kg.edge_seen
    /\ prop_counts' = kg.prop_counts

\* before the inner loop has taken a row
NoRow == [t |-> "unset", f |-> <<>>]

\* kg = KGBuilder() and the call of kg.build(files)
Init ==
    /\ nodes = NewKG.nodes
    /\ edges = NewKG.edges
    /\ edge_seen = NewKG.edge_seen
    /\ prop_counts = NewKG.prop_counts
    /\ pc = "files"
    /\ fileNo = 0
    /\ rowsLeft = 0
    /\ row = NoRow
    /\ warn = ""
    /\ orderA = <<>>
    /\ orderB = <<>>
    /\ resB = Returned(NewKG)

\* the outer loop takes the next file: rows = load_json_any(f), and a file
\* that cannot be read is reported and skipped
LoadFile ==
    /\ pc = "files"
    /\ fileNo < MaxFiles
    /\ \E file \in Files :
         LET r == load_json_any(file)
         IN  /\ fileNo' = fileNo + 1
             /\ rowsLeft' = r.len
             /\ warn' = IF r.exc THEN "file" ELSE ""
             /\ pc' = IF r.len = 0 THEN "files" ELSE "rows"
    /\ UNCHANGED <<nodes, edges, edge_seen, prop_counts, row>>
    /\ UNCHANGED orderVars

\* the inner loop takes the next row: self.process_row(row), and a row that
\* raises is reported
ProcessRow ==
    /\ pc = "rows"
    /\ \E r \in Rows :
         LET res == process_row(KG, r)
         IN  /\ SetKG(res.kg)
             /\ row' = r
             /\ warn' = IF res.exc THEN "row" ELSE ""
    /\ rowsLeft' = rowsLeft - 1
    /\ pc' = IF rowsLeft = 1 THEN "files" ELSE "rows"
    /\ UNCHANGED fileNo
    /\ UNCHANGED orderVars

\* the files are exhausted: the nodes are normalised and build returns, or
\* sorted raises and so does build
Normalize ==
    /\ pc = "files"
    /\ LET res == normalize(KG)
       IN  /\ SetKG(res.kg)
           /\ pc' = IF res.exc THEN "raised" ELSE "done"
    /\ warn' = ""
    /\ UNCHANGED <<fileNo, rowsLeft, row>>
    /\ UNCHANGED orderVars

Next == LoadFile \/ ProcessRow \/ Normalize

Spec == Init /\ [][Next]_vars

\* ------------------------------------------------------------ build as a function

\* the two loops of build over the rows of the files, one after the other: a
\* row that raises is reported and the loop goes on
RECURSIVE ingest(_, _)
ingest(kg, rows) ==
    IF rows = <<>> THEN kg
    ELSE ingest(process_row(kg, rows[1]).kg, Tail(rows))

\* KGBuilder().build(files), the files holding rows
build(rows) == normalize(ingest(NewKG, rows))

\* the most rows the files of SpecOrder hold together
MaxOrder == 3

\* the rows of SpecOrder: those that change the builder
OrderRows ==
    {RowFull, RowAlias, RowThird, RowLiteral, RowBadProp, RowNumLabel,
     RowListLabel}

RECURSIVE SeqsUpTo(_)
SeqsUpTo(k) ==
    IF k = 0 THEN {<<>>}
    ELSE LET shorter == SeqsUpTo(k - 1)
         IN  shorter \cup {Append(q, r) : q \in {x \in shorter : Len(x) = k - 1},
                                          r \in OrderRows}

\* any rows, to be built in two orders
InitOrder ==
    /\ nodes = NewKG.nodes
    /\ edges = NewKG.edges
    /\ edge_seen = NewKG.edge_seen
    /\ prop_counts = NewKG.prop_counts
    /\ pc = "files"
    /\ fileNo = 0
    /\ rowsLeft = 0
    /\ row = NoRow
    /\ warn = ""
    /\ orderA \in SeqsUpTo(MaxOrder)
    /\ orderB = orderA
    /\ resB = Returned(NewKG)

\* two neighbouring rows of the second order change places
SwapOrder ==
    /\ pc = "files"
    /\ \E i \in 1..(Len(orderB) - 1) :
         orderB' = [orderB EXCEPT ![i] = orderB[i + 1], ![i + 1] = orderB[i]]
    /\ UNCHANGED <<nodes, edges, edge_seen, prop_counts, pc, fileNo, rowsLeft,
                   row, warn, orderA, resB>>

\* build on the first order with this builder, on the second with another
BuildBoth ==
    /\ pc = "files"
    /\ LET resA == build(orderA)
       IN  /\ SetKG(resA.kg)
           /\ pc' = IF resA.exc THEN "raised" ELSE "done"
    /\ resB' = build(orderB)
    /\ UNCHANGED <<fileNo, rowsLeft, row, warn, orderA, orderB>>

NextOrder == SwapOrder \/ BuildBoth

SpecOrder == InitOrder /\ [][NextOrder]_vars

\* ------------------------------------------------------------ Properties

Range(f) == {f[i] : i \in DOMAIN f}

\* the dedup quadruple of a stored edge: source, target, property id or "",
\* property label or ""
Quadruple(e) ==
    <<e.source, e.target, OrEmpty(e.property_id), OrEmpty(e.property_label)>>

\* the labels a node holds, while building (a set) and once normalised (a list)
LabelsOf(n) == IF "label" \in DOMAIN n THEN Range(n.labels) ELSE n.labels

\* what one row alone gives a new builder
Alone(r) == process_row(NewKG, r).kg

\* the ids, the labels of id q and the quadruples the rows give one by one
IdsOf(rows) == UNION {DOMAIN Alone(r).nodes : r \in Range(rows)}

ObservedLabels(q, rows) ==
    UNION {Alone(r).nodes[q].labels :
             r \in {x \in Range(rows) : q \in DOMAIN Alone(x).nodes}}

QuadruplesOf(rows) ==
    UNION {{Quadruple(e) : e \in Range(Alone(r).edges)} : r \in Range(rows)}

\* a cell yields an entity id
YieldsId(cell) == ~extract_qid(cell).exc /\ Truthy(extract_qid(cell).val)

SubjectColumns == <<"item", "item1", "subject">>

ObjectColumns == <<"value", "item2", "o">>

SubjectLabelColumns == <<"itemLabel", "item1Label", "subjectLabel">>

PropertyLabelColumns == <<"propLabel", "pl_">>

NoIdIn(r, cols) == \A i \in DOMAIN cols : ~YieldsId(Get(r, cols[i]))

\* the id of the first of the columns that yields one
FirstId(r, cols) ==
    LET i == CHOOSE j \in DOMAIN cols :
               /\ YieldsId(Get(r, cols[j]))
               /\ \A h \in 1..(j - 1) : ~YieldsId(Get(r, cols[h]))
    IN  extract_qid(Get(r, cols[i])).val

\* the columns hold no non-empty value
AllEmpty(r, cols) == \A i \in DOMAIN cols : ~Truthy(get_value(Get(r, cols[i])))

\* the first non-empty value of the columns
FirstNonEmpty(r, cols) ==
    LET i == CHOOSE j \in DOMAIN cols :
               /\ Truthy(get_value(Get(r, cols[j])))
               /\ \A h \in 1..(j - 1) : ~Truthy(get_value(Get(r, cols[h])))
    IN  get_value(Get(r, cols[i]))

\* a step leaves the node map, the edge list, the seen keys and the counter
\* as they were
BuilderUnchanged ==
    /\ nodes' = nodes
    /\ edges' = edges
    /\ edge_seen' = edge_seen
    /\ prop_counts' = prop_counts

\* C1: whatever rows build is given and however often each is repeated, the
\* edge list holds no two edges with the same (source, target, property id or
\* "", property label or "") quadruple and holds exactly the quadruples the
\* rows give one by one, the seen keys are those quadruples, and the node map
\* has one entry, under its own id, for each id the rows give.
C1_DedupIdempotence ==
    pc \in {"done", "raised"} =>
        /\ \A i, j \in 1..Len(edges) :
             Quadruple(edges[i]) = Quadruple(edges[j]) => i = j
        /\ {Quadruple(e) : e \in Range(edges)} = QuadruplesOf(orderA)
        /\ edge_seen = QuadruplesOf(orderA)
        /\ Len(edges) = Cardinality(QuadruplesOf(orderA))
        /\ DOMAIN nodes = IdsOf(orderA)
        /\ \A q \in DOMAIN nodes : nodes[q].id = q

\* the same row three times gives its two nodes and its one edge
C1_Witness ==
    /\ pc = "done"
    /\ orderA = <<RowFull, RowFull, RowFull>>
    /\ Len(edges) = 1
    /\ DOMAIN nodes = {Q1, Q2}

\* C2: in every state of a build, rows that raised part-way included, and
\* after the normalisation, the source and the target of every edge are keys
\* of the node map.
C2_EdgeEndpointsExist ==
    \A i \in 1..Len(edges) :
        edges[i].source \in DOMAIN nodes /\ edges[i].target \in DOMAIN nodes

\* after the normalisation, an edge is stored and the last row raised
C2_Witness ==
    /\ pc = "done"
    /\ Len(edges) >= 1
    /\ row = RowListLabel
    /\ edges[1].target = Q1

\* C3: build on two orders of the same rows gives the same node ids, the same
\* labels (so the same label and the same sorted list) for each node and the
\* same set of edges, and raises on one order exactly when it does on the
\* other; only the order of the edge list may differ.
C3_OrderIndependent ==
    pc \in {"done", "raised"} =>
        /\ resB.exc = (pc = "raised")
        /\ nodes = resB.kg.nodes
        /\ Range(edges) = Range(resB.kg.edges)
        /\ edge_seen = resB.kg.edge_seen

\* two orders of three rows whose edge lists differ in order only
C3_Witness ==
    /\ pc = "done"
    /\ Len(orderA) = 3
    /\ orderA # orderB
    /\ Len(edges) = 3
    /\ edges # resB.kg.edges
    /\ \E q \in DOMAIN nodes : Len(nodes[q].labels) >= 2

\* C4: a row whose processing raises contributes nothing: the node map, the
\* edge list, the seen keys and the counter are as before the row.
C4_FailedRowContributesNothing ==
    [][warn' = "row" => BuilderUnchanged]_vars

\* C5: build never aborts: whatever the files and rows, the normalisation
\* completes.
C5_BuildNeverAborts == pc # "raised"

\* C6: a row in which none of item, item1, subject yields an entity id leaves
\* the node map and the edge list (and the seen keys and the counter) as they
\* were, and the loop over the rows goes on.
C6_NoSubjectNoEffect ==
    [][(pc = "rows" /\ NoIdIn(row', SubjectColumns)) =>
          /\ BuilderUnchanged
          /\ rowsLeft' = rowsLeft - 1
          /\ pc' = IF rowsLeft' = 0 THEN "files" ELSE "rows"]_vars

\* the row without a subject id, with an object id and labels, was processed
\* first, another row of the file is to come
C6_Witness ==
    /\ row = RowNoSubject
    /\ YieldsId(Get(row, "value"))
    /\ pc = "rows"
    /\ rowsLeft = 1
    /\ nodes = <<>>
    /\ edges = <<>>

C8_CanonicalLabel ==
    pc = "done" =>
        \A q \in DOMAIN nodes :
            LET seen == ObservedLabels(q, orderA)
                n    == nodes[q]
            IN  /\ Range(n.labels) = seen
                /\ Len(n.labels) = Cardinality(seen)
                /\ \A i \in 1..(Len(n.labels) - 1) :
                     Less(n.labels[i], n.labels[i + 1])
                /\ seen = {} => n.label = PyStr(<<>>)
                /\ seen # {} =>
                     /\ n.label \in seen
                     /\ \A l \in seen \ {n.label} : Less(n.label, l)

\* a node seen as "Beta", "Alpha" and "alpha" has the label "Alpha" and the
\* three in order
C8_Witness ==
    /\ pc = "done"
    /\ Q2 \in DOMAIN nodes
    /\ ObservedLabels(Q2, orderA) = {Beta, Alpha, alpha}
    /\ nodes[Q2].label = Alpha
    /\ nodes[Q2].labels = <<Alpha, Beta, alpha>>

\* C9: every stored edge with a property id has a non-empty property label;
\* an edge a row adds has the property label the first non-empty of propLabel,
\* pl_, and the property id itself when both are empty.
C9_PropertyLabelFallback ==
    [][/\ \A i \in 1..Len(edges') :
            Truthy(edges'[i].property_id) => Truthy(edges'[i].property_label)
       /\ Len(edges') > Len(edges) =>
            LET e == edges'[Len(edges')]
            IN  e.property_label =
                    IF AllEmpty(row', PropertyLabelColumns) THEN e.property_id
                    ELSE FirstNonEmpty(row', PropertyLabelColumns)]_vars

\* a row with a property id and no property label text stored its edge under
\* the property id
C9_Witness ==
    /\ row = RowAlias
    /\ AllEmpty(row, PropertyLabelColumns)
    /\ Len(edges) >= 1
    /\ edges[Len(edges)].property_id = P31
    /\ edges[Len(edges)].property_label = P31

\* C10: no step of a build removes a node id or drops a label of a node, and
\* every step leaves the edges stored before it, unchanged and in their
\* order, as the beginning of the edge list.
C10_GraphOnlyGrows ==
    [][/\ DOMAIN nodes \subseteq DOMAIN nodes'
       /\ \A q \in DOMAIN nodes : LabelsOf(nodes[q]) \subseteq LabelsOf(nodes'[q])
       /\ Len(edges) <= Len(edges')
       /\ SubSeq(edges', 1, Len(edges)) = edges]_vars

\* three edges were added one after the other and both nodes hold labels
C10_Witness ==
    /\ pc = "rows"
    /\ Len(edges) = 3
    /\ \A q \in DOMAIN nodes : Cardinality(nodes[q].labels) >= 2

=============================================================================
